---- MODULE Spec2Model ----
(***************************************************************************)
(* gym-gridverse: the environment composition engine (envs/factory.py) and *)
(* the OpenAI-gym wrapper with its swappable representations (gym.py).     *)
(*                                                                         *)
(* Three specifications share the module:                                 *)
(*   SpecCompose  the composed transition / reward / termination functions *)
(*                built by create_env, applied to drawn inputs;            *)
(*   SpecFactory  the registry STRING_TO_GYM_CONSTRUCTOR and               *)
(*                env_from_descr;                                          *)
(*   Spec         GymEnvironment instances over one OuterEnv: construction,*)
(*                representation swaps, seed, reset, step, render, close.  *)
(*                                                                         *)
(* The grid world itself (grid, agent, objects, the concrete rules) is not *)
(* part of the files modelled here; it is abstracted to a one-dimensional  *)
(* corridor of cells 0..MaxCell whose last cell is the goal.  Rewards are  *)
(* integers (the code's 1.0 / -1.0 are 1 / -1).                            *)
(***************************************************************************)
EXTENDS Integers, Sequences, FiniteSets, TLC

VARIABLES
    call,    \* SpecCompose: the call of a composed function under way
    fac,     \* SpecFactory: the last call of env_from_descr
    envs,    \* SpecFactory: the InnerEnv instances built so far
    outer,   \* Spec: the OuterEnv object (None before it is constructed)
    gym,     \* Spec: the GymEnvironment instances wrapping outer
    ret,     \* Spec: the last call on a GymEnvironment and what it returned
    twin     \* Spec: a second run of the same InnerEnv that is fed the same
             \* seed / reset / step calls and never sees a representation

vars == <<call, fac, envs, outer, gym, ret, twin>>

(***************************************************************************)
(* Bounds of the model.                                                    *)
(***************************************************************************)
MaxCell == 2

RngMod == 2

MaxRules == 2

(***************************************************************************)
(* The abstract world.                                                     *)
(***************************************************************************)
\* Python's None where an object is expected; NoName where a str is
None == [none |-> TRUE]

NoName == "None"

\* no call of a composed function / of env_from_descr is under way
IdleCall == [kind |-> "idle", pc |-> "idle"]

IdleFac == [pc |-> "idle"]

\* the GymEnvironment instances of the model
Instances == {"a", "b"}

\* the record of a call: the method, the instance, its str / int argument,
\* the error raised (NoName: none), the reward and done flag of a step,
\* whether it repeats the successful call just before it, the observation
\* or state it returned, (for a property read) whether the call just
\* before it installed a representation, and (for a step) whether the call
\* just before it was a step that returned done
Ret(op, self, name, number, raised, reward_, done) ==
    [op |-> op, self |-> self, name |-> name, number |-> number,
     raised |-> raised, reward |-> reward_, done |-> done, again |-> FALSE,
     value |-> None, after_swap |-> FALSE, after_done |-> FALSE]

SetOps == {"set_state_representation", "set_observation_representation"}

IdleRet == Ret("idle", "", "", 0, NoName, 0, FALSE)

\* no OuterEnv and no GymEnvironment has been constructed
NoGym ==
    /\ outer = None
    /\ gym = [i \in Instances |-> None]
    /\ ret = IdleRet
    /\ twin = None

NoObstacle == -1

Cells == 0..MaxCell

GoalCell == MaxCell

Action == <<"MOVE_FORWARD", "MOVE_BACKWARD", "ACTUATE", "PICK_N_DROP">>

Actions == {Action[i] : i \in DOMAIN Action}

Rngs == 0..(RngMod - 1)

State(shape, agent, obstacle, door_open, holding) ==
    [shape |-> shape, agent |-> agent, obstacle |-> obstacle,
     door_open |-> door_open, holding |-> holding]

States(shape) ==
    [shape : {shape}, agent : Cells, obstacle : Cells \cup {NoObstacle},
     door_open : BOOLEAN, holding : BOOLEAN]

\* one draw of the random stream: the value drawn and the advanced stream
draw(rng) == [value |-> rng, rng |-> (rng + 1) % RngMod]

(***************************************************************************)
(* Transition rules: (state, action, rng) -> (state, rng).                 *)
(***************************************************************************)
DoorCell == MaxCell - 1

KeyCell == 0

update_agent(state, action, rng) ==
    LET target == CASE action = "MOVE_FORWARD" -> state.agent + 1
                    [] action = "MOVE_BACKWARD" -> state.agent - 1
                    [] OTHER -> state.agent
        blocked == \/ target \notin Cells
                   \/ target = DoorCell /\ ~state.door_open
    IN  [state |-> IF blocked THEN state ELSE [state EXCEPT !.agent = target],
         rng |-> rng]

step_moving_obstacles(state, action, rng) ==
    IF state.obstacle = NoObstacle
    THEN [state |-> state, rng |-> rng]
    ELSE LET d == draw(rng)
             target == IF d.value % 2 = 0 THEN state.obstacle + 1
                                            ELSE state.obstacle - 1
             free == /\ target \in Cells
                     /\ target # GoalCell
                     /\ target # state.agent
         IN  [state |-> IF free THEN [state EXCEPT !.obstacle = target]
                                ELSE state,
              rng |-> d.rng]

actuate_door(state, action, rng) ==
    [state |-> IF /\ action = "ACTUATE"
                  /\ state.agent + 1 = DoorCell
                  /\ state.holding
               THEN [state EXCEPT !.door_open = ~state.door_open]
               ELSE state,
     rng |-> rng]

pickup_mechanics(state, action, rng) ==
    [state |-> IF action = "PICK_N_DROP" /\ state.agent = KeyCell
               THEN [state EXCEPT !.holding = ~state.holding]
               ELSE state,
     rng |-> rng]

\* a rule supplied by the caller of create_env that validates the state it
\* is handed: it raises when the agent stands on the goal, and changes
\* nothing otherwise.  A rule that raises returns no state: the record says
\* what was raised, and where the state it was handed stood
assert_off_goal(state, action, rng) ==
    IF state.agent = GoalCell
    THEN [state |-> state, rng |-> rng, raised |-> "AssertionError"]
    ELSE [state |-> state, rng |-> rng]

\* whether the call of a rule, or of the chain, ended in a raise
Failed(n) == "raised" \in DOMAIN n

TransitionNames ==
    {"update_agent", "step_moving_obstacles", "actuate_door", "pickup_mechanics"}

TransitionFunction(f, state, action, rng) ==
    CASE f = "update_agent" -> update_agent(state, action, rng)
      [] f = "step_moving_obstacles" -> step_moving_obstacles(state, action, rng)
      [] f = "actuate_door" -> actuate_door(state, action, rng)
      [] f = "pickup_mechanics" -> pickup_mechanics(state, action, rng)
      [] f = "assert_off_goal" -> assert_off_goal(state, action, rng)

(***************************************************************************)
(* Reward rules and termination predicates:                                *)
(* (state, action, next_state) -> number / boolean.                        *)
(***************************************************************************)
reached_goal(next_state) == next_state.agent = GoalCell

bumped_obstacle(next_state) ==
    next_state.obstacle # NoObstacle /\ next_state.agent = next_state.obstacle

bumped_wall(state, action) ==
    LET attempted == CASE action = "MOVE_FORWARD" -> state.agent + 1
                       [] action = "MOVE_BACKWARD" -> state.agent - 1
                       [] OTHER -> state.agent
    IN  attempted \notin Cells

RewardNames == {"reach_goal", "bump_moving_obstacle", "bump_into_wall"}

RewardFunction(r, state, action, next_state) ==
    CASE r = "reach_goal" -> IF reached_goal(next_state) THEN 1 ELSE 0
      [] r = "bump_moving_obstacle" ->
             IF bumped_obstacle(next_state) THEN -1 ELSE 0
      [] r = "bump_into_wall" -> IF bumped_wall(state, action) THEN -1 ELSE 0

TerminationNames == RewardNames

TerminatingFunction(t, state, action, next_state) ==
    CASE t = "reach_goal" -> reached_goal(next_state)
      [] t = "bump_moving_obstacle" -> bumped_obstacle(next_state)
      [] t = "bump_into_wall" -> bumped_wall(state, action)

(***************************************************************************)
(* create_env: the three composed functions.                               *)
(***************************************************************************)
\* transition_fs.chain: the rules applied one after the other to the
\* evolving state, each with the original action; a rule that raises ends
\* the chain, the rules after it do not run
RECURSIVE chain(_, _, _, _)
chain(state, action, rng, transition_functions) ==
    IF transition_functions = <<>>
    THEN [state |-> state, rng |-> rng]
    ELSE LET n == TransitionFunction(Head(transition_functions),
                                     state, action, rng)
         IN  IF Failed(n)
             THEN n
             ELSE chain(n.state, action, n.rng, Tail(transition_functions))

Reverse(seq) == [i \in 1..Len(seq) |-> seq[Len(seq) + 1 - i]]

transition_reversed(transition_functions, state, action, rng) ==
    chain(state, action, rng, Reverse(transition_functions))

\* transition = partial(transition_fs.chain, transition_functions=...)
transition(transition_functions, state, action, rng) ==
    chain(state, action, rng, transition_functions)

\* Python's sum(iterable): 0, then each item added left to right
RECURSIVE sum(_)
sum(items) == IF items = <<>> THEN 0 ELSE Head(items) + sum(Tail(items))

\* Python's any(iterable): the first true item decides, false when exhausted
RECURSIVE any(_)
any(items) ==
    IF items = <<>> THEN FALSE
    ELSE IF Head(items) THEN TRUE ELSE any(Tail(items))

reward_last(rewards, state, action, next_state) ==
    IF rewards = <<>> THEN 0
    ELSE RewardFunction(rewards[Len(rewards)], state, action, next_state)

reward(rewards, state, action, next_state) ==
    sum([i \in 1..Len(rewards) |->
            RewardFunction(rewards[i], state, action, next_state)])

termination_all(terminations, state, action, next_state) ==
    \A i \in 1..Len(terminations) :
        TerminatingFunction(terminations[i], state, action, next_state)

termination(terminations, state, action, next_state) ==
    any([i \in 1..Len(terminations) |->
            TerminatingFunction(terminations[i], state, action, next_state)])

(***************************************************************************)
(* Reset functions: rng -> (state, rng).  The grid is height x width; the  *)
(* positions are those of the corridor.                                    *)
(***************************************************************************)
random_cell(random_pos, d) == IF random_pos THEN d.value % MaxCell ELSE 0

reset_empty(height, width, random_pos, rng) ==
    LET d == draw(rng)
    IN  [state |-> State(<<height, width>>, random_cell(random_pos, d),
                         NoObstacle, TRUE, FALSE),
         rng |-> IF random_pos THEN d.rng ELSE rng]

reset_rooms(height, width, layout, rng) ==
    LET d == draw(rng)
    IN  [state |-> State(<<height, width>>, random_cell(TRUE, d),
                         NoObstacle, TRUE, FALSE),
         rng |-> d.rng]

reset_dynamic_obstacles(height, width, num_obstacles, random_pos, rng) ==
    LET d == draw(rng)
        agent == random_cell(random_pos, d)
        e == draw(d.rng)
        obstacle == (agent + 1 + (e.value % (MaxCell - 1))) % MaxCell
    IN  [state |-> State(<<height, width>>, agent, obstacle, TRUE, FALSE),
         rng |-> e.rng]

reset_keydoor(height, width, rng) ==
    [state |-> State(<<height, width>>, KeyCell, NoObstacle, FALSE, FALSE),
     rng |-> rng]

\* a reset function with its bound arguments (functools.partial), called
ResetFunction(reset, rng) ==
    CASE reset.func = "reset_empty" ->
             reset_empty(reset.height, reset.width, reset.random_pos, rng)
      [] reset.func = "reset_rooms" ->
             reset_rooms(reset.height, reset.width, reset.layout, rng)
      [] reset.func = "reset_dynamic_obstacles" ->
             reset_dynamic_obstacles(reset.height, reset.width,
                                     reset.num_obstacles, reset.random_pos,
                                     rng)
      [] reset.func = "reset_keydoor" ->
             reset_keydoor(reset.height, reset.width, rng)

(***************************************************************************)
(* The builders of envs/factory.py.  An InnerEnv is the GridWorld record   *)
(* create_env returns: not reset yet, its random stream at `entropy`.      *)
(***************************************************************************)
StateSpace(grid_shape, objects, colors) ==
    [grid_shape |-> grid_shape, objects |-> objects, colors |-> colors]

ObservationSpace(grid_shape, objects, colors) ==
    [grid_shape |-> grid_shape, objects |-> objects, colors |-> colors]

ActionSpace(actions) == [actions |-> actions, num_actions |-> Len(actions)]

DomainSpace(state_space, action_space, observation_space) ==
    [state_space |-> state_space, action_space |-> action_space,
     observation_space |-> observation_space]

create_env(domain_space, reset, transition_functions, rewards, terminations, entropy) ==
    [domain_space |-> domain_space,
     reset |-> reset,
     transition_functions |-> transition_functions,
     rewards |-> rewards,
     terminations |-> terminations,
     state |-> None,
     observation |-> None,
     rng |-> entropy]

\* a variant that declares the grid of the smallest room instead of sampling
plain_navigation_task_unsampled(reset_func, entropy) ==
    LET objects == <<"Wall", "Floor", "Goal">>
        colors == <<"NONE">>
        domain_space == DomainSpace(StateSpace(<<7, 7>>, objects, colors),
                                    ActionSpace(Action),
                                    ObservationSpace(<<7, 7>>, objects,
                                                     colors))
    IN  create_env(domain_space, reset_func, <<"update_agent">>,
                   <<"reach_goal">>, <<"reach_goal">>, entropy)

plain_navigation_task(reset_func, entropy) ==
    LET transitions == <<"update_agent">>
        rewards == <<"reach_goal">>
        terminations == <<"reach_goal">>
        grid_shape == ResetFunction(reset_func, entropy).state.shape
        objects == <<"Wall", "Floor", "Goal">>
        colors == <<"NONE">>
        state_space == StateSpace(grid_shape, objects, colors)
        observation_shape == <<7, 7>>
        observation_space == ObservationSpace(observation_shape, objects,
                                              colors)
        action_space == ActionSpace(Action)
        domain_space == DomainSpace(state_space, action_space,
                                    observation_space)
    IN  create_env(domain_space, reset_func, transitions, rewards,
                   terminations, entropy)

env_dynamic_obstacle(size, random_pos, num_obstacles, entropy) ==
    LET reset_func == [func |-> "reset_dynamic_obstacles",
                       height |-> size + 2, width |-> size + 2,
                       num_obstacles |-> num_obstacles,
                       random_pos |-> random_pos]
        transitions == <<"update_agent", "step_moving_obstacles">>
        rewards == <<"reach_goal", "bump_moving_obstacle", "bump_into_wall">>
        terminations ==
            <<"reach_goal", "bump_moving_obstacle", "bump_into_wall">>
        grid_shape == ResetFunction(reset_func, entropy).state.shape
        objects == <<"Wall", "Floor", "Goal", "MovingObstacle">>
        colors == <<"NONE">>
        state_space == StateSpace(grid_shape, objects, colors)
        observation_space == ObservationSpace(<<7, 7>>, objects, colors)
        action_space == ActionSpace(Action)
        domain_space == DomainSpace(state_space, action_space,
                                    observation_space)
    IN  create_env(domain_space, reset_func, transitions, rewards,
                   terminations, entropy)

env_empty(size, random_pos, entropy) ==
    LET reset == [func |-> "reset_empty", height |-> size + 2,
                  width |-> size + 2, random_pos |-> random_pos]
    IN  plain_navigation_task(reset, entropy)

env_four_room(entropy) ==
    LET reset == [func |-> "reset_rooms", height |-> 19, width |-> 19,
                  layout |-> <<2, 2>>]
    IN  plain_navigation_task(reset, entropy)

gym_keydoor_env(size, entropy) ==
    LET reset == [func |-> "reset_keydoor", height |-> size + 2,
                  width |-> size + 2]
        transitions == <<"update_agent", "actuate_door", "pickup_mechanics">>
        rewards == <<"reach_goal">>
        terminations == <<"reach_goal">>
        grid_shape == ResetFunction(reset, entropy).state.shape
        objects == <<"Wall", "Floor", "Goal", "Door", "Key">>
        colors == <<"NONE", "YELLOW">>
        observation_shape == <<7, 7>>
        state_space == StateSpace(grid_shape, objects, colors)
        observation_space == ObservationSpace(observation_shape, objects,
                                              colors)
        action_space == ActionSpace(Action)
        domain_space == DomainSpace(state_space, action_space,
                                    observation_space)
    IN  create_env(domain_space, reset, transitions, rewards, terminations,
                   entropy)

\* the registry: name -> builder with its bound arguments
STRING_TO_GYM_CONSTRUCTOR ==
    ("Empty-5x5-v0" :>
        [func |-> "env_empty", size |-> 5, random_pos |-> FALSE]) @@
    ("Empty-Random-5x5-v0" :>
        [func |-> "env_empty", size |-> 5, random_pos |-> TRUE]) @@
    ("Empty-6x6-v0" :>
        [func |-> "env_empty", size |-> 6, random_pos |-> FALSE]) @@
    ("Empty-Random-6x6-v0" :>
        [func |-> "env_empty", size |-> 6, random_pos |-> TRUE]) @@
    ("Empty-8x8-v0" :>
        [func |-> "env_empty", size |-> 8, random_pos |-> FALSE]) @@
    ("Empty-16x16-v0" :>
        [func |-> "env_empty", size |-> 16, random_pos |-> FALSE]) @@
    ("FourRooms-v0" :> [func |-> "env_four_room"]) @@
    ("Dynamic-Obstacles-5x5-v0" :>
        [func |-> "env_dynamic_obstacle", size |-> 5, random_pos |-> FALSE,
         num_obstacles |-> 2]) @@
    ("Dynamic-Obstacles-Random-5x5-v0" :>
        [func |-> "env_dynamic_obstacle", size |-> 5, random_pos |-> TRUE,
         num_obstacles |-> 2]) @@
    ("Dynamic-Obstacles-6x6-v0" :>
        [func |-> "env_dynamic_obstacle", size |-> 6, random_pos |-> FALSE,
         num_obstacles |-> 3]) @@
    ("Dynamic-Obstacles-Random-6x6-v0" :>
        [func |-> "env_dynamic_obstacle", size |-> 6, random_pos |-> TRUE,
         num_obstacles |-> 3]) @@
    ("Dynamic-Obstacles-8x8-v0" :>
        [func |-> "env_dynamic_obstacle", size |-> 8, random_pos |-> FALSE,
         num_obstacles |-> 4]) @@
    ("Dynamic-Obstacles-16x16-v0" :>
        [func |-> "env_dynamic_obstacle", size |-> 16, random_pos |-> FALSE,
         num_obstacles |-> 8]) @@
    ("KeyDoor-5x5-v0" :> [func |-> "gym_keydoor_env", size |-> 5]) @@
    ("KeyDoor-6x6-v0" :> [func |-> "gym_keydoor_env", size |-> 6]) @@
    ("KeyDoor-8x8-v0" :> [func |-> "gym_keydoor_env", size |-> 8]) @@
    ("KeyDoor-16x16-v0" :> [func |-> "gym_keydoor_env", size |-> 16])

\* calling a registry value: the builder applied to its bound arguments
Construct(constructor, entropy) ==
    CASE constructor.func = "env_empty" ->
             env_empty(constructor.size, constructor.random_pos, entropy)
      [] constructor.func = "env_four_room" -> env_four_room(entropy)
      [] constructor.func = "env_dynamic_obstacle" ->
             env_dynamic_obstacle(constructor.size, constructor.random_pos,
                                  constructor.num_obstacles, entropy)
      [] constructor.func = "gym_keydoor_env" ->
             gym_keydoor_env(constructor.size, entropy)

(***************************************************************************)
(* The Inner Environment (GridWorld): reset, step, set_seed.               *)
(***************************************************************************)
\* what lies in the cell ahead of the agent
CellAhead(state) ==
    LET c == state.agent + 1
    IN  CASE c \notin Cells -> "Wall"
          [] c = GoalCell -> "Goal"
          [] c = state.obstacle -> "MovingObstacle"
          [] c = DoorCell /\ ~state.door_open -> "Door"
          [] OTHER -> "Floor"

\* observation = partial(minigrid_observation, observation_space=...)
minigrid_observation(state, observation_space) ==
    [shape |-> observation_space.grid_shape,
     ahead |-> CellAhead(state),
     holding |-> state.holding]

Outcome(env, raised, reward_, done) ==
    [env |-> env, raised |-> raised, reward |-> reward_, done |-> done]

InnerEnv_reset(env) ==
    LET r == ResetFunction(env.reset, env.rng)
    IN  [env EXCEPT
            !.state = r.state,
            !.rng = r.rng,
            !.observation =
                minigrid_observation(r.state,
                                     env.domain_space.observation_space)]

\* a variant whose rules work on the canonical state itself: what the rules
\* before the one that raised did stays
InnerEnv_step_in_place(env, action) ==
    IF env.state = None
    THEN Outcome(env, "RuntimeError", 0, FALSE)
    ELSE IF action \notin {env.domain_space.action_space.actions[i] :
                             i \in 1..env.domain_space.action_space.num_actions}
    THEN Outcome(env, "ValueError", 0, FALSE)
    ELSE LET n == transition(env.transition_functions, env.state, action,
                             env.rng)
         IN  IF Failed(n)
             THEN Outcome([env EXCEPT !.state = n.state, !.rng = n.rng],
                          n.raised, 0, FALSE)
             ELSE Outcome([env EXCEPT
                              !.state = n.state,
                              !.rng = n.rng,
                              !.observation =
                                  minigrid_observation(
                                      n.state,
                                      env.domain_space.observation_space)],
                          NoName,
                          reward(env.rewards, env.state, action, n.state),
                          termination(env.terminations, env.state, action,
                                      n.state))

\* the rules work on a copy of the canonical state, which replaces it only
\* when the whole chain has run; the draws the rules made are not given
\* back to the random stream
InnerEnv_step(env, action) ==
    IF env.state = None
    THEN Outcome(env, "RuntimeError", 0, FALSE)
    ELSE IF action \notin {env.domain_space.action_space.actions[i] :
                             i \in 1..env.domain_space.action_space.num_actions}
    THEN Outcome(env, "ValueError", 0, FALSE)
    ELSE LET n == transition(env.transition_functions, env.state, action,
                             env.rng)
             r == reward(env.rewards, env.state, action, n.state)
             t == termination(env.terminations, env.state, action, n.state)
         IN  IF Failed(n)
             THEN Outcome([env EXCEPT !.rng = n.rng], n.raised, 0, FALSE)
             ELSE Outcome([env EXCEPT
                              !.state = n.state,
                              !.rng = n.rng,
                              !.observation =
                                  minigrid_observation(
                                      n.state,
                                      env.domain_space.observation_space)],
                          NoName, r, t)

InnerEnv_set_seed(env, seed) == [env EXCEPT !.rng = seed % RngMod]

\* ActionSpace.int_to_action: the action at that place of the enumeration
int_to_action(action_space, action) ==
    IF action \in 0..(action_space.num_actions - 1)
    THEN [raised |-> NoName, action |-> action_space.actions[action + 1]]
    ELSE [raised |-> "ValueError", action |-> ""]

(***************************************************************************)
(* Representations: a name and the space descriptor derived from the space *)
(* contract.  An array is abstracted to its shape and the value filling    *)
(* it.                                                                     *)
(***************************************************************************)
Array(shape, fill) == [shape |-> shape, fill |-> fill]

zeros_like(v) == Array(v.shape, 0)

RepresentationNames == {"default", "compact"}

RepresentationSpace(name, space) ==
    LET h == space.grid_shape[1]
        w == space.grid_shape[2]
    IN  IF name = "default"
        THEN [grid |-> Array(<<h, w, 3>>, Len(space.objects)),
              agent |-> Array(<<3>>, Len(space.colors))]
        ELSE [grid |-> Array(<<h, w>>, Len(space.objects) * Len(space.colors)),
              agent |-> Array(<<1>>, Len(space.colors))]

create_representation(kind, name, space) ==
    IF name \in RepresentationNames
    THEN [raised |-> NoName,
          rep |-> [kind |-> kind, name |-> name,
                   space |-> RepresentationSpace(name, space)]]
    ELSE [raised |-> "ValueError", rep |-> None]

create_state_representation(name, state_space) ==
    create_representation("state", name, state_space)

create_observation_representation(name, observation_space) ==
    create_representation("observation", name, observation_space)

(***************************************************************************)
(* The Outer Environment and gym.py.                                       *)
(***************************************************************************)
OuterEnv(env, state_rep, observation_rep) ==
    [inner_env |-> env, state_rep |-> state_rep,
     observation_rep |-> observation_rep]

Box(low, high) == [low |-> low, high |-> high]

Discrete(n) == [n |-> n]

\* gym.spaces.Dict({k: Box(low=zeros_like(v), high=v) for k, v in space})
outer_space_to_gym_space(space) ==
    [k \in DOMAIN space |-> Box(zeros_like(space[k]), space[k])]

\* the space __init__ advertises for a representation it does not override
space_or_None(rep) ==
    IF rep # None THEN outer_space_to_gym_space(rep.space) ELSE None

Effect(outer_env, self, raised) ==
    [outer_env |-> outer_env, self |-> self, raised |-> raised]

\* a variant that rebuilds the inner environment along with the
\* representation
set_state_representation_resetting(outer_env, self, name) ==
    LET c == create_state_representation(
                 name, outer_env.inner_env.domain_space.state_space)
        o == [outer_env EXCEPT !.state_rep = c.rep,
                               !.inner_env.state = None,
                               !.inner_env.observation = None]
    IN  IF c.raised # NoName
        THEN Effect(outer_env, self, c.raised)
        ELSE Effect(o,
                    [self EXCEPT !.state_space =
                        outer_space_to_gym_space(o.state_rep.space)],
                    NoName)

set_state_representation(outer_env, self, name) ==
    LET c == create_state_representation(
                 name, outer_env.inner_env.domain_space.state_space)
        o == [outer_env EXCEPT !.state_rep = c.rep]
    IN  IF c.raised # NoName
        THEN Effect(outer_env, self, c.raised)
        ELSE Effect(o,
                    [self EXCEPT !.state_space =
                        outer_space_to_gym_space(o.state_rep.space)],
                    NoName)

\* a variant that advertises the space of the representation it replaces
set_observation_representation_stale(outer_env, self, name) ==
    LET c == create_observation_representation(
                 name, outer_env.inner_env.domain_space.observation_space)
        o == [outer_env EXCEPT !.observation_rep = c.rep]
    IN  IF c.raised # NoName
        THEN Effect(outer_env, self, c.raised)
        ELSE Effect(o,
                    [self EXCEPT !.observation_space =
                        space_or_None(outer_env.observation_rep)],
                    NoName)

\* a variant that draws from the inner environment's random stream
set_observation_representation_drawing(outer_env, self, name) ==
    LET c == create_observation_representation(
                 name, outer_env.inner_env.domain_space.observation_space)
        o == [outer_env EXCEPT !.observation_rep = c.rep,
                               !.inner_env.rng = draw(@).rng]
    IN  IF c.raised # NoName
        THEN Effect(outer_env, self, c.raised)
        ELSE Effect(o,
                    [self EXCEPT !.observation_space =
                        outer_space_to_gym_space(o.observation_rep.space)],
                    NoName)

set_observation_representation(outer_env, self, name) ==
    LET c == create_observation_representation(
                 name, outer_env.inner_env.domain_space.observation_space)
        o == [outer_env EXCEPT !.observation_rep = c.rep]
    IN  IF c.raised # NoName
        THEN Effect(outer_env, self, c.raised)
        ELSE Effect(o,
                    [self EXCEPT !.observation_space =
                        outer_space_to_gym_space(o.observation_rep.space)],
                    NoName)

\* the attributes of an instance whose __init__ has not assigned them yet
Unassigned ==
    [state_space |-> None, observation_space |-> None,
     action_space |-> None, state_viewer |-> None,
     observation_viewer |-> None]

\* GymEnvironment.__init__ on the OuterEnv its constructor returned
GymEnvironment(outer_env, state_rep_override, obs_rep_override) ==
    LET s == IF state_rep_override # NoName
             THEN set_state_representation(outer_env, Unassigned,
                                           state_rep_override)
             ELSE Effect(outer_env,
                         [Unassigned EXCEPT !.state_space =
                             space_or_None(outer_env.state_rep)],
                         NoName)
        o == IF obs_rep_override # NoName
             THEN set_observation_representation(s.outer_env, s.self,
                                                 obs_rep_override)
             ELSE Effect(s.outer_env,
                         [s.self EXCEPT !.observation_space =
                             space_or_None(s.outer_env.observation_rep)],
                         NoName)
    IN  IF s.raised # NoName THEN Effect(s.outer_env, None, s.raised)
        ELSE IF o.raised # NoName THEN Effect(o.outer_env, None, o.raised)
        ELSE Effect(o.outer_env,
                    [o.self EXCEPT !.action_space =
                        Discrete(o.outer_env.inner_env.domain_space
                                     .action_space.num_actions)],
                    NoName)

\* outer_env_constructor of the gym registration
outer_env_constructor(constructor, entropy) ==
    LET env == Construct(constructor, entropy)
        state_repr == None
        observation_repr ==
            create_observation_representation(
                "default", env.domain_space.observation_space).rep
    IN  OuterEnv(env, state_repr, observation_repr)

\* the place of an object kind, or a colour, in the space's declared list
Index(items, name) == CHOOSE i \in 1..Len(items) : items[i] = name

\* what a cell of the state holds
CellContent(state, c) ==
    CASE c = GoalCell -> "Goal"
      [] c = state.obstacle -> "MovingObstacle"
      [] c = DoorCell /\ ~state.door_open -> "Door"
      [] OTHER -> "Floor"

\* the object kinds a raw State / Observation shows, cell by cell
Shown(obj) ==
    IF "agent" \in DOMAIN obj
    THEN [c \in 1..(MaxCell + 1) |-> CellContent(obj, c - 1)]
    ELSE <<obj.ahead>>

\* where the agent of a raw State is (an Observation is taken from there)
AgentAt(obj) == IF "agent" \in DOMAIN obj THEN obj.agent ELSE 0

\* Representation.convert: the named arrays of a raw object.  default keeps
\* a (kind, colour) pair per cell and the agent's position; compact keeps
\* one number per cell and what the agent holds
convert(representation, space, obj) ==
    LET kinds == Shown(obj)
        held == IF obj.holding THEN 1 ELSE 0
    IN  IF representation.name = "default"
        THEN [grid |-> [i \in DOMAIN kinds |->
                           <<Index(space.objects, kinds[i]), 0>>],
              agent |-> <<AgentAt(obj), held>>]
        ELSE [grid |-> [i \in DOMAIN kinds |->
                           Index(space.objects, kinds[i]) * Len(space.colors)],
              agent |-> <<held>>]

\* OuterEnv.state / OuterEnv.observation: the raw object through the
\* installed representation, the raw object itself when none is installed;
\* before the first reset there is nothing to show
OuterEnv_state(outer_env) ==
    LET env == outer_env.inner_env
    IN  IF env.state = None THEN None
        ELSE IF outer_env.state_rep = None THEN env.state
        ELSE convert(outer_env.state_rep, env.domain_space.state_space,
                     env.state)

OuterEnv_observation(outer_env) ==
    LET env == outer_env.inner_env
    IN  IF env.state = None THEN None
        ELSE IF outer_env.observation_rep = None THEN env.observation
        ELSE convert(outer_env.observation_rep,
                     env.domain_space.observation_space, env.observation)

GymEnvironment_state(outer_env) == OuterEnv_state(outer_env)

\* a variant that hands out the raw observation whatever is installed
GymEnvironment_observation_raw(outer_env) == outer_env.inner_env.observation

GymEnvironment_observation(outer_env) == OuterEnv_observation(outer_env)

NoSeed == -1

\* gym.utils.seeding.create_seed: a given seed is kept, a missing one is
\* drawn from the system's entropy
create_seed(seed_, entropy) == IF seed_ = NoSeed THEN entropy ELSE seed_

\* a variant that returns the seed and forwards nothing
GymEnvironment_seed_unforwarded(env, seed_, entropy) ==
    [env |-> env, returned |-> <<create_seed(seed_, entropy)>>]

GymEnvironment_seed(env, seed_, entropy) ==
    LET actual_seed == create_seed(seed_, entropy)
    IN  [env |-> InnerEnv_set_seed(env, actual_seed),
         returned |-> <<actual_seed>>]

GymEnvironment_reset(env) == InnerEnv_reset(env)

\* a variant that indexes the enumeration from either end, without a check
GymEnvironment_step_wrapping(env, action) ==
    LET n == env.domain_space.action_space.num_actions
    IN  InnerEnv_step(env,
                      env.domain_space.action_space.actions[(action % n) + 1])

\* a variant that starts the next episode when the step ends one
GymEnvironment_step_restarting(env, action) ==
    LET action_ == int_to_action(env.domain_space.action_space, action)
        e == InnerEnv_step(env, action_.action)
    IN  IF action_.raised # NoName
        THEN Outcome(env, action_.raised, 0, FALSE)
        ELSE IF e.raised = NoName /\ e.done
        THEN Outcome(InnerEnv_reset(e.env), NoName, e.reward, e.done)
        ELSE e

\* a variant that resets an environment that has not been reset
GymEnvironment_step_resetting(env, action) ==
    LET action_ == int_to_action(env.domain_space.action_space, action)
        ready == IF env.state = None THEN InnerEnv_reset(env) ELSE env
    IN  IF action_.raised # NoName
        THEN Outcome(env, action_.raised, 0, FALSE)
        ELSE InnerEnv_step(ready, action_.action)

GymEnvironment_step(env, action) ==
    LET action_ == int_to_action(env.domain_space.action_space, action)
    IN  IF action_.raised # NoName
        THEN Outcome(env, action_.raised, 0, FALSE)
        ELSE InnerEnv_step(env, action_.action)

RenderModes == {"human", "human_state", "human_observation"}

GridVerseViewer(shape, caption) == [shape |-> shape, caption |-> caption]

GymEnvironment_render(env, self, mode) ==
    IF mode \notin RenderModes
    THEN [self |-> self, raised |-> "NotImplementedError"]
    ELSE IF env.state = None
    THEN [self |-> self, raised |-> NoName]
    ELSE LET s == IF mode \in {"human", "human_state"}
                     /\ self.state_viewer = None
                  THEN [self EXCEPT !.state_viewer =
                           GridVerseViewer(
                               env.domain_space.state_space.grid_shape,
                               "State")]
                  ELSE self
             o == IF mode \in {"human", "human_observation"}
                     /\ s.observation_viewer = None
                  THEN [s EXCEPT !.observation_viewer =
                           GridVerseViewer(
                               env.domain_space.observation_space.grid_shape,
                               "Observation")]
                  ELSE s
         IN  [self |-> o, raised |-> NoName]

\* a variant that forgets the observation space with the viewers
GymEnvironment_close_forgetting(self) ==
    [self EXCEPT !.state_viewer = None, !.observation_viewer = None,
                 !.observation_space = None]

GymEnvironment_close(self) ==
    [self EXCEPT !.state_viewer = None, !.observation_viewer = None]

\* what a builder call does: return its environment, or fail with an error
\* of the named class (a failure of the reset function it samples)
BuilderOutcomes == {"ok", "KeyError", "RuntimeError"}

Raised(error, named, ran) ==
    [raised |-> error, named |-> named, ran |-> ran, value |-> None]

env_from_descr_default(descr, outcome, entropy) ==
    LET known == descr \in DOMAIN STRING_TO_GYM_CONSTRUCTOR
        key == IF known THEN descr ELSE "Empty-5x5-v0"
    IN  IF outcome = "ok"
        THEN [raised |-> NoName, named |-> "", ran |-> <<key>>,
              value |-> Construct(STRING_TO_GYM_CONSTRUCTOR[key], entropy)]
        ELSE IF outcome = "KeyError"
        THEN Raised("ValueError", descr, <<key>>)
        ELSE Raised(outcome, "", <<key>>)

\* try: return STRING_TO_GYM_CONSTRUCTOR[descr]()
\* except KeyError: raise ValueError(f"No environment named {descr} ...")
env_from_descr(descr, outcome, entropy) ==
    IF descr \notin DOMAIN STRING_TO_GYM_CONSTRUCTOR
    THEN \* the lookup raises KeyError, which the handler turns around
         Raised("ValueError", descr, <<>>)
    ELSE IF outcome = "ok"
    THEN [raised |-> NoName, named |-> "", ran |-> <<descr>>,
          value |-> Construct(STRING_TO_GYM_CONSTRUCTOR[descr], entropy)]
    ELSE IF outcome = "KeyError"
    THEN \* a KeyError out of the builder is caught by the same handler
         Raised("ValueError", descr, <<descr>>)
    ELSE Raised(outcome, "", <<descr>>)

(***************************************************************************)
(* SpecFactory: calls of env_from_descr; envs are the instances built so   *)
(* far, in order of construction.                                          *)
(***************************************************************************)
MaxEnvs == 1

UnknownDescrs == {"Empty-7x7-v0", ""}

Descrs == DOMAIN STRING_TO_GYM_CONSTRUCTOR \cup UnknownDescrs

InitFactory ==
    /\ fac = IdleFac
    /\ envs = <<>>
    /\ call = IdleCall
    /\ NoGym

EnvFromDescr(descr, outcome, entropy) ==
    LET res == env_from_descr(descr, outcome, entropy)
    IN  /\ res.value # None => Len(envs) < MaxEnvs
        /\ fac' = [pc |-> "returned", descr |-> descr, outcome |-> outcome,
                   entropy |-> entropy, raised |-> res.raised,
                   named |-> res.named, ran |-> res.ran,
                   value |-> res.value, built_before |-> Len(envs)]
        /\ envs' = IF res.value # None THEN Append(envs, res.value) ELSE envs
        /\ UNCHANGED <<call, outer, gym, ret, twin>>

\* every name of the registry and the unknown ones, with each outcome of the
\* builder; the builders' random streams all start from the same entropy
NextFactory ==
    \E descr \in Descrs, outcome \in BuilderOutcomes :
        EnvFromDescr(descr, outcome, 0)

SpecFactory == InitFactory /\ [][NextFactory]_vars

\* C4: env_from_descr with a name that is no registry key raises an error
\* naming the requested value, runs no builder and constructs nothing; with
\* a registered name whose builder returns, it returns that builder's
\* environment and no other builder runs.
C4_EnvFromDescr ==
    fac.pc = "returned" =>
        /\ fac.descr \notin DOMAIN STRING_TO_GYM_CONSTRUCTOR =>
              /\ fac.raised = "ValueError"
              /\ fac.named = fac.descr
              /\ fac.ran = <<>>
              /\ fac.value = None
              /\ Len(envs) = fac.built_before
        /\ (fac.descr \in DOMAIN STRING_TO_GYM_CONSTRUCTOR
                /\ fac.outcome = "ok") =>
              /\ fac.raised = NoName
              /\ fac.ran = <<fac.descr>>
              /\ fac.value = Construct(STRING_TO_GYM_CONSTRUCTOR[fac.descr],
                                       fac.entropy)
              /\ Len(envs) = fac.built_before + 1
              /\ envs[Len(envs)] = fac.value

\* C4 witness: an unknown name was refused after a registered one was built.
C4_Witness ==
    /\ fac.pc = "returned"
    /\ fac.descr = "Empty-7x7-v0"
    /\ fac.raised = "ValueError"
    /\ Len(envs) = 1
    /\ envs[1].reset.func = "reset_keydoor"

(***************************************************************************)
(* SpecCompose: one application of a composed function to drawn inputs.    *)
(***************************************************************************)
RuleLists(names) == UNION {[1..n -> names] : n \in 0..MaxRules}

ComposeShape == <<7, 7>>

\* the states a reward rule or termination predicate is evaluated on
TripleStates ==
    {s \in States(ComposeShape) : s.door_open /\ ~s.holding}

InitComposeCall ==
    \/ \E fs \in RuleLists(TransitionNames), s \in States(ComposeShape),
          a \in Actions, r \in Rngs :
          call = [kind |-> "transition", rules |-> fs, state |-> s,
                  action |-> a, next_state |-> s, rng |-> r,
                  pc |-> "call", out |-> None]
    \/ \E rs \in RuleLists(RewardNames), s \in TripleStates,
          a \in Actions, n \in TripleStates :
          call = [kind |-> "reward", rules |-> rs, state |-> s,
                  action |-> a, next_state |-> n, rng |-> 0,
                  pc |-> "call", out |-> None]
    \/ \E ts \in RuleLists(TerminationNames), s \in TripleStates,
          a \in Actions, n \in TripleStates :
          call = [kind |-> "termination", rules |-> ts, state |-> s,
                  action |-> a, next_state |-> n, rng |-> 0,
                  pc |-> "call", out |-> None]

InitCompose ==
    /\ InitComposeCall
    /\ fac = IdleFac
    /\ envs = <<>>
    /\ NoGym

CallTransition ==
    /\ call.pc = "call" /\ call.kind = "transition"
    /\ call' = [call EXCEPT
           !.pc = "return",
           !.out = transition(call.rules, call.state, call.action, call.rng)]
    /\ UNCHANGED <<fac, envs, outer, gym, ret, twin>>

CallReward ==
    /\ call.pc = "call" /\ call.kind = "reward"
    /\ call' = [call EXCEPT
           !.pc = "return",
           !.out = reward(call.rules, call.state, call.action,
                          call.next_state)]
    /\ UNCHANGED <<fac, envs, outer, gym, ret, twin>>

CallTermination ==
    /\ call.pc = "call" /\ call.kind = "termination"
    /\ call' = [call EXCEPT
           !.pc = "return",
           !.out = termination(call.rules, call.state, call.action,
                               call.next_state)]
    /\ UNCHANGED <<fac, envs, outer, gym, ret, twin>>

NextCompose == CallTransition \/ CallReward \/ CallTermination

SpecCompose == InitCompose /\ [][NextCompose]_vars

Returned(kind) == call.kind = kind /\ call.pc = "return"

\* how often rule name n occurs in the called list
Occurrences(n) == Cardinality({i \in DOMAIN call.rules : call.rules[i] = n})

\* C1: the composed reward is the arithmetic sum of every rule of the list
\* evaluated on its own on the same (state, action, next_state); the empty
\* list gives 0.
C1_RewardAdditive ==
    Returned("reward") =>
        /\ call.out =
             Occurrences("reach_goal")
                 * RewardFunction("reach_goal", call.state, call.action,
                                  call.next_state)
             + Occurrences("bump_moving_obstacle")
                 * RewardFunction("bump_moving_obstacle", call.state,
                                  call.action, call.next_state)
             + Occurrences("bump_into_wall")
                 * RewardFunction("bump_into_wall", call.state, call.action,
                                  call.next_state)
        /\ (call.rules = <<>> => call.out = 0)

\* C1 witness: two different rules of one list both fire on the triple (the
\* agent walks into the wall behind the goal) and the result is their sum.
C1_Witness ==
    /\ Returned("reward")
    /\ call.rules = <<"reach_goal", "bump_into_wall">>
    /\ RewardFunction("reach_goal", call.state, call.action,
                      call.next_state) = 1
    /\ RewardFunction("bump_into_wall", call.state, call.action,
                      call.next_state) = -1
    /\ call.out = 0

\* C2: the composed termination is true iff at least one predicate of the
\* list is true on the triple; the empty list gives false.
C2_TerminationOr ==
    Returned("termination") =>
        /\ call.out \in BOOLEAN
        /\ call.out <=>
             \E i \in DOMAIN call.rules :
                 TerminatingFunction(call.rules[i], call.state, call.action,
                                     call.next_state)
        /\ (call.rules = <<>> => call.out = FALSE)

\* C2 witness: a list whose first predicate is false and whose second is
\* true terminates.
C2_Witness ==
    /\ Returned("termination")
    /\ Len(call.rules) = 2
    /\ ~TerminatingFunction(call.rules[1], call.state, call.action,
                            call.next_state)
    /\ TerminatingFunction(call.rules[2], call.state, call.action,
                           call.next_state)
    /\ call.out = TRUE

\* the state after the first i rules of the called list, each applied to its
\* predecessors' result with the original action
FoldedTo[i \in 0..MaxRules + 1] ==
    IF i = 0 \/ i > Len(call.rules)
    THEN [state |-> call.state, rng |-> call.rng]
    ELSE TransitionFunction(call.rules[i], FoldedTo[i - 1].state,
                            call.action, FoldedTo[i - 1].rng)

\* C3: the composed transition is the left-to-right fold of the rules from
\* the current state, every rule given the state its predecessors produced
\* and the original action; the empty list returns the current state.
C3_TransitionInOrder ==
    Returned("transition") =>
        /\ call.out = FoldedTo[Len(call.rules)]
        /\ (call.rules = <<>> => call.out.state = call.state)

\* C3 witness: two rules whose order matters were applied.
C3_Witness ==
    /\ Returned("transition")
    /\ Len(call.rules) = 2
    /\ call.out.state #
         chain(call.state, call.action, call.rng, Reverse(call.rules)).state

(***************************************************************************)
(* Spec: GymEnvironment instances over one OuterEnv.                       *)
(***************************************************************************)
\* the registry names the instances are made from
GymKeys ==
    {"Empty-Random-5x5-v0", "Dynamic-Obstacles-5x5-v0"}

\* representation names a caller passes: the registered ones and one more
NameArgs == RepresentationNames \cup {"unregistered"}

Seeds == 0..RngMod

\* action integers a caller passes: the legal range and one on either side
ActionArgs == -1..Len(Action)

\* the second run: what varies in its InnerEnv (the rest is as in the
\* first run's), what its step returned when the latest call was a step,
\* and whether the first run has swapped a representation so far
Twin(env, raised, reward_, done, swapped) ==
    [state |-> env.state, observation |-> env.observation, rng |-> env.rng,
     raised |-> raised, reward |-> reward_, done |-> done,
     swapped |-> swapped]

\* the InnerEnv of the second run
TwinEnv ==
    [outer.inner_env EXCEPT !.state = twin.state,
                            !.observation = twin.observation,
                            !.rng = twin.rng]

\* the second run after a call that returns nothing of a step
TwinAfter(env, swapped) == Twin(env, NoName, 0, FALSE, swapped)

\* whether the call repeats the successful call just before it
Again(op, self, name) ==
    /\ ret.op = op /\ ret.self = self /\ ret.name = name
    /\ ret.raised = NoName

RepOrNone(kind, name, space) ==
    IF name = NoName THEN None ELSE create_representation(kind, name, space).rep

Init ==
    /\ NoGym
    /\ call = IdleCall
    /\ fac = IdleFac
    /\ envs = <<>>

\* a caller constructs the OuterEnv itself, as make_env of the control loop
MakeOuterEnv(key, state_rep, observation_rep, entropy) ==
    LET env == Construct(STRING_TO_GYM_CONSTRUCTOR[key], entropy)
    IN  /\ outer = None
        /\ outer' = OuterEnv(
               env,
               RepOrNone("state", state_rep, env.domain_space.state_space),
               RepOrNone("observation", observation_rep,
                         env.domain_space.observation_space))
        /\ twin' = Twin(env, NoName, 0, FALSE, FALSE)
        /\ ret' = Ret("OuterEnv", "", key, 0, NoName, 0, FALSE)
        /\ UNCHANGED <<gym, call, fac, envs>>

\* gym.make of a registered id: the constructor builds a new OuterEnv
GymMake(self, key, state_rep_override, obs_rep_override, entropy) ==
    LET o == outer_env_constructor(STRING_TO_GYM_CONSTRUCTOR[key], entropy)
        e == GymEnvironment(o, state_rep_override, obs_rep_override)
    IN  /\ outer = None
        /\ gym[self] = None
        /\ IF e.raised = NoName
           THEN /\ outer' = e.outer_env
                /\ gym' = [gym EXCEPT ![self] = e.self]
                /\ twin' = Twin(o.inner_env, NoName, 0, FALSE, FALSE)
           ELSE UNCHANGED <<outer, gym, twin>>
        /\ ret' = Ret("__init__", self, key, 0, e.raised, 0, FALSE)
        /\ UNCHANGED <<call, fac, envs>>

\* GymEnvironment(lambda: env, ...) on the existing OuterEnv;
\* from_environment is the call without overrides
FromEnvironment(self, state_rep_override, obs_rep_override) ==
    LET e == GymEnvironment(outer, state_rep_override, obs_rep_override)
    IN  /\ outer # None
        /\ gym[self] = None
        /\ outer' = e.outer_env
        /\ gym' = IF e.raised = NoName THEN [gym EXCEPT ![self] = e.self]
                                       ELSE gym
        /\ ret' = Ret("from_environment", self, "", 0, e.raised, 0, FALSE)
        /\ UNCHANGED <<twin, call, fac, envs>>

SetStateRepresentation(self, name) ==
    LET e == set_state_representation(outer, gym[self], name)
    IN  /\ gym[self] # None
        /\ outer' = e.outer_env
        /\ gym' = [gym EXCEPT ![self] = e.self]
        /\ ret' = [Ret("set_state_representation", self, name, 0, e.raised,
                       0, FALSE)
                   EXCEPT !.again =
                       Again("set_state_representation", self, name)]
        /\ twin' = TwinAfter(TwinEnv, twin.swapped \/ e.raised = NoName)
        /\ UNCHANGED <<call, fac, envs>>

SetObservationRepresentation(self, name) ==
    LET e == set_observation_representation(outer, gym[self], name)
    IN  /\ gym[self] # None
        /\ outer' = e.outer_env
        /\ gym' = [gym EXCEPT ![self] = e.self]
        /\ ret' = [Ret("set_observation_representation", self, name, 0,
                       e.raised, 0, FALSE)
                   EXCEPT !.again =
                       Again("set_observation_representation", self, name)]
        /\ twin' = TwinAfter(TwinEnv, twin.swapped \/ e.raised = NoName)
        /\ UNCHANGED <<call, fac, envs>>

Seed(self, seed_, entropy) ==
    LET e == GymEnvironment_seed(outer.inner_env, seed_, entropy)
    IN  /\ gym[self] # None
        /\ outer' = [outer EXCEPT !.inner_env = e.env]
        /\ twin' = TwinAfter(GymEnvironment_seed(TwinEnv, seed_, entropy).env,
                             twin.swapped)
        /\ ret' = Ret("seed", self, "", e.returned[1], NoName, 0, FALSE)
        /\ UNCHANGED <<gym, call, fac, envs>>

Reset(self) ==
    /\ gym[self] # None
    /\ outer' = [outer EXCEPT !.inner_env = GymEnvironment_reset(@)]
    /\ twin' = TwinAfter(GymEnvironment_reset(TwinEnv), twin.swapped)
    /\ ret' = [Ret("reset", self, "", 0, NoName, 0, FALSE)
               EXCEPT !.value = GymEnvironment_observation(
                   [outer EXCEPT !.inner_env = GymEnvironment_reset(@)])]
    /\ UNCHANGED <<gym, call, fac, envs>>

Step(self, action) ==
    LET e == GymEnvironment_step(outer.inner_env, action)
        t == GymEnvironment_step(TwinEnv, action)
    IN  /\ gym[self] # None
        /\ outer' = [outer EXCEPT !.inner_env = e.env]
        /\ twin' = Twin(t.env, t.raised, t.reward, t.done, twin.swapped)
        /\ ret' = [Ret("step", self, "", action, e.raised, e.reward, e.done)
                   EXCEPT !.value =
                       IF e.raised # NoName THEN None
                       ELSE GymEnvironment_observation(
                                [outer EXCEPT !.inner_env = e.env]),
                          !.after_done = ret.op = "step" /\ ret.done]
        /\ UNCHANGED <<gym, call, fac, envs>>

Render(self, mode) ==
    LET e == GymEnvironment_render(outer.inner_env, gym[self], mode)
    IN  /\ gym[self] # None
        /\ gym' = [gym EXCEPT ![self] = e.self]
        /\ ret' = Ret("render", self, mode, 0, e.raised, 0, FALSE)
        /\ twin' = TwinAfter(TwinEnv, twin.swapped)
        /\ UNCHANGED <<outer, call, fac, envs>>

Close(self) ==
    /\ gym[self] # None
    /\ gym' = [gym EXCEPT ![self] = GymEnvironment_close(@)]
    /\ ret' = Ret("close", self, "", 0, NoName, 0, FALSE)
    /\ twin' = TwinAfter(TwinEnv, twin.swapped)
    /\ UNCHANGED <<outer, call, fac, envs>>

\* reading the state or the observation property
Read(self, property) ==
    /\ gym[self] # None
    /\ ret' = [Ret(property, self, "", 0, NoName, 0, FALSE)
               EXCEPT !.value = IF property = "state"
                                THEN GymEnvironment_state(outer)
                                ELSE GymEnvironment_observation(outer),
                      !.after_swap = ret.op \in SetOps /\ ret.raised = NoName]
    /\ twin' = TwinAfter(TwinEnv, twin.swapped)
    /\ UNCHANGED <<outer, gym, call, fac, envs>>

\* the calls a program makes on the one GymEnvironment it constructs
Next ==
    \/ \E key \in GymKeys, s, o \in RepresentationNames \cup {NoName},
          entropy \in Rngs : MakeOuterEnv(key, s, o, entropy)
    \/ \E key \in GymKeys, s, o \in NameArgs \cup {NoName},
          entropy \in Rngs : GymMake("a", key, s, o, entropy)
    \/ \E s, o \in NameArgs \cup {NoName} : FromEnvironment("a", s, o)
    \/ \E name \in NameArgs : SetStateRepresentation("a", name)
    \/ \E name \in NameArgs : SetObservationRepresentation("a", name)
    \/ \E seed_ \in Seeds : Seed("a", seed_, 0)
    \/ \E entropy \in Rngs : Seed("a", NoSeed, entropy)
    \/ Reset("a")
    \/ \E action \in ActionArgs : Step("a", action)
    \/ \E mode \in RenderModes \cup {"rgb_array"} : Render("a", mode)
    \/ Close("a")
    \/ \E property \in {"state", "observation"} : Read("a", property)

Spec == Init /\ [][Next]_vars

(***************************************************************************)
(* What the calls of Spec leave alone.                                     *)
(***************************************************************************)
\* the calls that install no representation
OtherOps == {"seed", "reset", "step", "render", "close", "state",
             "observation"}

\* the instance of the call that has just returned
Self == gym[ret.self]

\* the inner environment has been reset
Ready(env) == env.state # None

\* C6: set_state_representation and set_observation_representation never
\* touch the inner environment (state, observation, domain spaces, reset or
\* not: all as before the call), and each changes only its own
\* representation and its own advertised space: the other representation,
\* the other space, the action space and the rest of the instance stay.
C6_SetRepresentationFrame ==
    [][ret'.op \in SetOps =>
          LET self == ret'.self
          IN  /\ outer'.inner_env = outer.inner_env
              /\ Ready(outer'.inner_env) = Ready(outer.inner_env)
              /\ ret'.op = "set_state_representation" =>
                    /\ outer'.observation_rep = outer.observation_rep
                    /\ gym'[self] = [gym[self] EXCEPT !.state_space =
                                         gym'[self].state_space]
              /\ ret'.op = "set_observation_representation" =>
                    /\ outer'.state_rep = outer.state_rep
                    /\ gym'[self] = [gym[self] EXCEPT !.observation_space =
                                         gym'[self].observation_space]
              /\ gym'[self].action_space = gym[self].action_space]_vars

\* a state representation has just been installed on an environment that
\* has been reset and has an observation representation
C6_Witness ==
    /\ ret.op = "set_state_representation"
    /\ ret.raised = NoName
    /\ ret.name = "compact"
    /\ Ready(outer.inner_env)
    /\ outer.state_rep # None
    /\ outer.state_rep.name = "compact"
    /\ outer.observation_rep # None
    /\ Self.state_space = outer_space_to_gym_space(outer.state_rep.space)

\* C7: reset, step, seed, render, close and reading the state / observation
\* properties leave state_space, observation_space and action_space of the
\* GymEnvironment as they were.
C7_OnlyInstallChangesSpaces ==
    [][ret'.op \in OtherOps =>
          LET self == ret'.self
          IN  /\ gym'[self].state_space = gym[self].state_space
              /\ gym'[self].observation_space = gym[self].observation_space
              /\ gym'[self].action_space = gym[self].action_space]_vars

\* close has just returned on an instance that advertises both spaces
C7_Witness ==
    /\ ret.op = "close"
    /\ Self.state_space # None
    /\ Self.observation_space # None
    /\ Self.action_space # None
    /\ Ready(outer.inner_env)

\* C8: a set_observation_representation(R) (resp.
\* set_state_representation(R)) that immediately follows a successful call
\* of the same method with the same R leaves the advertised space, and the
\* installed representation, as they were before this second call.
C8_SwapIdempotent ==
    [][(ret'.op \in SetOps /\ ret'.again) =>
          LET self == ret'.self
          IN  /\ ret'.raised = NoName
              /\ gym'[self].observation_space = gym[self].observation_space
              /\ gym'[self].state_space = gym[self].state_space
              /\ outer' = outer]_vars

\* the second of two set_observation_representation("compact") has returned
\* on an instance that was constructed with the default representation
C8_Witness ==
    /\ ret.op = "set_observation_representation"
    /\ ret.again
    /\ ret.name = "compact"
    /\ Self.observation_space =
           outer_space_to_gym_space(
               RepresentationSpace(
                   "compact", outer.inner_env.domain_space.observation_space))

\* C9: the run that swaps representations and the run that never does,
\* started from the same environment and fed the same calls, are in the same
\* inner state (state, observation, random stream) after every call, and
\* every step returns the same reward and done flag (and raises the same)
\* in both.
C9_SwapsDoNotInfluenceDynamics ==
    outer # None =>
        /\ twin.state = outer.inner_env.state
        /\ twin.observation = outer.inner_env.observation
        /\ twin.rng = outer.inner_env.rng
        /\ ret.op = "step" =>
              /\ twin.reward = ret.reward
              /\ twin.done = ret.done
              /\ twin.raised = ret.raised

\* a step after a swap has returned a reward other than 0
C9_Witness ==
    /\ ret.op = "step"
    /\ ret.raised = NoName
    /\ ret.reward # 0
    /\ twin.swapped
    /\ outer.observation_rep # None
    /\ outer.observation_rep.name = "compact"

\* C10: a step (with an action of the action space) on an environment that
\* has never been reset raises the sequencing error and leaves it not reset;
\* reset makes it Ready; a step on a Ready environment succeeds, and Ready
\* stays Ready after every step.
C10_StepNeedsReset ==
    [][/\ (ret'.op = "step" /\ ret'.number \in 0..(Len(Action) - 1)) =>
             IF Ready(outer.inner_env)
             THEN ret'.raised = NoName
             ELSE /\ ret'.raised = "RuntimeError"
                  /\ outer'.inner_env = outer.inner_env
       /\ ret'.op = "step" =>
             Ready(outer'.inner_env) = Ready(outer.inner_env)
       /\ ret'.op = "reset" => Ready(outer'.inner_env)]_vars

\* a step has raised the sequencing error and the environment is not reset
C10_Witness ==
    /\ ret.op = "step"
    /\ ret.raised = "RuntimeError"
    /\ ~Ready(outer.inner_env)
    /\ outer.inner_env.observation = None

(***************************************************************************)
(* SpecShared: two GymEnvironment instances made by from_environment (or   *)
(* by the constructor with overrides) from the one OuterEnv a caller has   *)
(* built; both hold a reference to it.                                     *)
(***************************************************************************)
SharedKeys == {"Empty-5x5-v0"}

NextShared ==
    \/ \E key \in SharedKeys, s, o \in RepresentationNames \cup {NoName},
          entropy \in Rngs : MakeOuterEnv(key, s, o, entropy)
    \/ \E self \in Instances, s, o \in NameArgs \cup {NoName} :
          FromEnvironment(self, s, o)
    \/ \E self \in Instances, name \in NameArgs :
          SetStateRepresentation(self, name)
    \/ \E self \in Instances, name \in NameArgs :
          SetObservationRepresentation(self, name)
    \/ \E self \in Instances, seed_ \in Seeds : Seed(self, seed_, 0)
    \/ \E self \in Instances : Reset(self)
    \/ \E self \in Instances, action \in ActionArgs : Step(self, action)

SpecShared == Init /\ [][NextShared]_vars

\* C5: in every state reached through construction (with or without
\* overrides, and by from_environment), set_state_representation,
\* set_observation_representation, reset, step and seed, each instance's
\* observation_space is the gym space of the observation representation
\* installed in the OuterEnv it wraps (None exactly when none is installed),
\* and its state_space that of the state representation.
C5_SpacePairedWithRepresentation ==
    \A self \in Instances :
        gym[self] # None =>
            /\ gym[self].observation_space =
                   space_or_None(outer.observation_rep)
            /\ gym[self].state_space = space_or_None(outer.state_rep)

(***************************************************************************)
(* Further properties of the calls of Spec.                                *)
(***************************************************************************)
\* C11: a step with an integer outside [0, num_actions), num_actions being
\* the size action_space advertises, is rejected with the validation error
\* and the inner environment is as before; an integer inside the range is
\* not rejected, and the step taken is the inner step of the one Action at
\* that place of the enumeration.
C11_ActionValidation ==
    [][ret'.op = "step" =>
          LET n == gym[ret'.self].action_space.n
              a == ret'.number
          IN  IF a \notin 0..(n - 1)
              THEN /\ ret'.raised = "ValueError"
                   /\ outer'.inner_env = outer.inner_env
              ELSE LET e == InnerEnv_step(outer.inner_env, Action[a + 1])
                   IN  /\ ret'.raised # "ValueError"
                       /\ ret'.raised = e.raised
                       /\ outer'.inner_env = e.env
                       /\ ret'.reward = e.reward
                       /\ ret'.done = e.done]_vars

\* a step with -1 has been rejected on an environment that has been reset
C11_Witness ==
    /\ ret.op = "step"
    /\ ret.number = -1
    /\ ret.raised = "ValueError"
    /\ Ready(outer.inner_env)
    /\ outer.inner_env.state.agent # 0

\* C12: the observation reset and step return, and the observation property
\* read at any later time, is the inner environment's current observation
\* (that of its current state) through the observation representation
\* installed at that moment, the raw observation when none is installed; a
\* read right after a swap already shows the new representation.
C12_ObservationIsCurrentProjection ==
    (/\ ret.op \in {"reset", "step", "observation"}
     /\ ret.raised = NoName
     /\ Ready(outer.inner_env)) =>
        LET env == outer.inner_env
            current == minigrid_observation(
                           env.state, env.domain_space.observation_space)
        IN  /\ env.observation = current
            /\ ret.value =
                   IF outer.observation_rep = None THEN current
                   ELSE convert(outer.observation_rep,
                                env.domain_space.observation_space, current)

\* the observation property has been read right after "compact" replaced
\* "default", with no step in between, and shows the compact arrays
C12_Witness ==
    /\ ret.op = "observation"
    /\ ret.after_swap
    /\ Ready(outer.inner_env)
    /\ outer.observation_rep # None
    /\ outer.observation_rep.name = "compact"
    /\ DOMAIN ret.value = {"grid", "agent"}
    /\ Len(ret.value.agent) = 1

\* C13: the environment never resets itself.  A step that succeeds, done or
\* not, and whether or not the step before it returned done, leaves as the
\* canonical state the next state of the composed transition; every other
\* call but reset leaves the canonical state as it was.
C13_NoAutoReset ==
    [][(ret'.op \in (OtherOps \cup SetOps) \ {"reset"}) =>
          LET env == outer.inner_env
          IN  IF ret'.op = "step" /\ ret'.raised = NoName
              THEN outer'.inner_env.state =
                       transition(env.transition_functions, env.state,
                                  Action[ret'.number + 1], env.rng).state
              ELSE outer'.inner_env.state = env.state]_vars

\* a step has been taken right after a step that returned done, and the
\* agent is still on the goal the episode ended on, where no reset puts it
C13_Witness ==
    /\ ret.op = "step"
    /\ ret.after_done
    /\ ret.raised = NoName
    /\ ret.done
    /\ outer.inner_env.state.agent = GoalCell

(***************************************************************************)
(* SpecBuild: calls of the registry's builders.  envs is the heap of the   *)
(* instances built so far, an instance's identity its place in it; each is *)
(* kept with the name it was built under, and is reset and stepped by its  *)
(* holder between the calls.                                               *)
(***************************************************************************)
MaxBuilds == MaxEnvs + 1

BuildKeys == {"Empty-Random-5x5-v0", "KeyDoor-5x5-v0"}

Built(key, env) == [key |-> key, env |-> env]

\* a variant that hands out the instance it built before under that name
CallBuilder_cached(heap, key, entropy) ==
    IF \E i \in 1..Len(heap) : heap[i].key = key
    THEN [heap |-> heap,
          ref |-> CHOOSE i \in 1..Len(heap) : heap[i].key = key]
    ELSE [heap |-> Append(heap,
                          Built(key,
                                Construct(STRING_TO_GYM_CONSTRUCTOR[key],
                                          entropy))),
          ref |-> Len(heap) + 1]

\* STRING_TO_GYM_CONSTRUCTOR[key](): the builder runs down to the
\* GridWorld(...) of create_env, which allocates the instance it returns
CallBuilder(heap, key, entropy) ==
    [heap |-> Append(heap,
                     Built(key,
                           Construct(STRING_TO_GYM_CONSTRUCTOR[key],
                                     entropy))),
     ref |-> Len(heap) + 1]

InitBuild ==
    /\ fac = [pc |-> "idle", calls |-> 0]
    /\ envs = <<>>
    /\ call = IdleCall
    /\ NoGym

BuildEnv(key, entropy) ==
    LET b == CallBuilder(envs, key, entropy)
    IN  /\ fac.calls < MaxBuilds
        /\ envs' = b.heap
        /\ fac' = [pc |-> "built", calls |-> fac.calls + 1, key |-> key,
                   ref |-> b.ref]
        /\ UNCHANGED <<call, outer, gym, ret, twin>>

ResetBuilt(i) ==
    /\ i \in 1..Len(envs)
    /\ envs' = [envs EXCEPT ![i].env = InnerEnv_reset(@)]
    /\ UNCHANGED <<fac, call, outer, gym, ret, twin>>

StepBuilt(i, action) ==
    /\ i \in 1..Len(envs)
    /\ Ready(envs[i].env)
    /\ envs' = [envs EXCEPT ![i].env = InnerEnv_step(@, action).env]
    /\ UNCHANGED <<fac, call, outer, gym, ret, twin>>

NextBuild ==
    \/ \E key \in BuildKeys, entropy \in Rngs : BuildEnv(key, entropy)
    \/ \E i \in 1..MaxBuilds : ResetBuilt(i)
    \/ \E i \in 1..MaxBuilds, action \in Actions : StepBuilt(i, action)

SpecBuild == InitBuild /\ [][NextBuild]_vars

\* C14: every call of a registry builder returns an instance that is none of
\* those built before, and has no other effect: the instances built before,
\* their canonical states included, are as they were, and the new one is
\* the only addition.  Any two instances of the same builder have the same
\* rule lists and the same domain space.
C14_BuilderReturnsFreshInstance ==
    [][fac'.calls # fac.calls =>
          /\ fac'.ref \notin 1..Len(envs)
          /\ fac'.ref = Len(envs')
          /\ Len(envs') = Len(envs) + 1
          /\ SubSeq(envs', 1, Len(envs)) = envs
          /\ envs'[fac'.ref].key = fac'.key
          /\ envs'[fac'.ref].env.state = None
          /\ \A i \in 1..Len(envs') :
                envs'[i].key = fac'.key =>
                   LET old == envs'[i].env
                       new == envs'[fac'.ref].env
                   IN  /\ old.transition_functions = new.transition_functions
                       /\ old.rewards = new.rewards
                       /\ old.terminations = new.terminations
                       /\ old.domain_space = new.domain_space]_vars

\* the same builder has been called a second time after its first instance
\* was reset and stepped; the first instance has kept its canonical state
C14_Witness ==
    /\ fac.pc = "built"
    /\ fac.ref = 2
    /\ Len(envs) = 2
    /\ envs[1].key = envs[2].key
    /\ Ready(envs[1].env)
    /\ envs[1].env.state.agent # 0
    /\ ~Ready(envs[2].env)

(***************************************************************************)
(* SpecSeeded: two environments made from the same registry name, each     *)
(* with the entropy its process gave it, are given the same calls: envs is *)
(* the pair of their inner environments, fac what the latest call          *)
(* returned in each and whether both were given the same seed before their *)
(* first reset (and the same seed at every later call of seed).            *)
(***************************************************************************)
SeededKeys == {"Dynamic-Obstacles-Random-5x5-v0", "Empty-Random-5x5-v0"}

Pair(pc, seeded, first, second) ==
    [pc |-> pc, seeded |-> seeded, out |-> <<first, second>>]

NoOutcome == [raised |-> NoName, reward |-> 0, done |-> FALSE]

Returns(e) == [raised |-> e.raised, reward |-> e.reward, done |-> e.done]

InitSeeded ==
    /\ fac = [pc |-> "idle"]
    /\ envs = <<>>
    /\ call = IdleCall
    /\ NoGym

MakePair(key, entropy1, entropy2) ==
    /\ envs = <<>>
    /\ envs' = <<outer_env_constructor(STRING_TO_GYM_CONSTRUCTOR[key],
                                       entropy1).inner_env,
                 outer_env_constructor(STRING_TO_GYM_CONSTRUCTOR[key],
                                       entropy2).inner_env>>
    /\ fac' = Pair("made", FALSE, NoOutcome, NoOutcome)
    /\ UNCHANGED <<call, outer, gym, ret, twin>>

SeedPair(seed_, entropy1, entropy2) ==
    LET a == GymEnvironment_seed(envs[1], seed_, entropy1)
        b == GymEnvironment_seed(envs[2], seed_, entropy2)
        same == create_seed(seed_, entropy1) = create_seed(seed_, entropy2)
    IN  /\ envs # <<>>
        /\ envs' = <<a.env, b.env>>
        /\ fac' = Pair("seed",
                       IF Ready(envs[1]) \/ Ready(envs[2])
                       THEN fac.seeded /\ same ELSE same,
                       [returned |-> a.returned], [returned |-> b.returned])
        /\ UNCHANGED <<call, outer, gym, ret, twin>>

ResetPair ==
    /\ envs # <<>>
    /\ envs' = <<GymEnvironment_reset(envs[1]), GymEnvironment_reset(envs[2])>>
    /\ fac' = Pair("reset", fac.seeded, NoOutcome, NoOutcome)
    /\ UNCHANGED <<call, outer, gym, ret, twin>>

StepPair(action) ==
    LET a == GymEnvironment_step(envs[1], action)
        b == GymEnvironment_step(envs[2], action)
    IN  /\ envs # <<>>
        /\ envs' = <<a.env, b.env>>
        /\ fac' = Pair("step", fac.seeded, Returns(a), Returns(b))
        /\ UNCHANGED <<call, outer, gym, ret, twin>>

NextSeeded ==
    \/ \E key \in SeededKeys, entropy1, entropy2 \in Rngs :
          MakePair(key, entropy1, entropy2)
    \/ \E seed_ \in Seeds : SeedPair(seed_, 0, 0)
    \/ \E entropy1, entropy2 \in Rngs : SeedPair(NoSeed, entropy1, entropy2)
    \/ ResetPair
    \/ \E action \in 0..(Len(Action) - 1) : StepPair(action)

SpecSeeded == InitSeeded /\ [][NextSeeded]_vars

\* C15: two environments of the same registry name that were given the same
\* seed before their first reset, and then the same reset / step calls, are
\* in the same state with the same observation after every call and every
\* step returns the same reward and done flag in both; seed returns a list
\* of one element, the seed the inner environment's stream now starts from.
C15_SeedingReproducible ==
    (envs # <<>> /\ fac.seeded) =>
        /\ envs[1].state = envs[2].state
        /\ envs[1].observation = envs[2].observation
        /\ envs[1].rng = envs[2].rng
        /\ fac.out[1] = fac.out[2]
        /\ fac.pc = "seed" =>
              \A i \in 1..2 :
                 /\ Len(fac.out[i].returned) = 1
                 /\ envs[i].rng = fac.out[i].returned[1] % RngMod

\* two environments whose streams started apart were given the same seed,
\* reset and stepped, and an obstacle has moved in both alike
C15_Witness ==
    /\ envs # <<>>
    /\ fac.seeded
    /\ fac.pc = "step"
    /\ fac.out[1].raised = NoName
    /\ envs[1].reset.func = "reset_dynamic_obstacles"
    /\ envs[1].state.agent # 0
    /\ envs[1].state.obstacle # NoObstacle

(***************************************************************************)
(* SpecState: the State objects of tests/test_state.py.  A State is an     *)
(* object (id) holding a grid of object kinds and an agent; call holds the *)
(* state under test, the copy made of it and what the comparison (or the   *)
(* hash) returned.                                                         *)
(***************************************************************************)
GridShapes == {<<2, 3>>, <<3, 2>>}

Orientations == {"N", "E", "S", "W"}

HeldObjects == {"NoneGridObject", "Key(RED)"}

Positions(shape) == (0..(shape[1] - 1)) \X (0..(shape[2] - 1))

\* Grid(height, width): floor everywhere
Grid(height, width) ==
    [shape |-> <<height, width>>,
     cells |-> [p \in Positions(<<height, width>>) |-> "Floor"]]

Agent(position, orientation, obj) ==
    [position |-> position, orientation |-> orientation, obj |-> obj]

TestState(id, grid, agent) == [id |-> id, grid |-> grid, agent |-> agent]

\* the states under test: either grid, with or without the wall at (0, 0)
TestStates ==
    {TestState(1,
               [Grid(shape[1], shape[2]) EXCEPT !.cells[<<0, 0>>] = kind],
               Agent(position, orientation, obj)) :
        shape \in GridShapes, kind \in {"Floor", "Wall"},
        position \in Positions(<<2, 2>>), orientation \in Orientations,
        obj \in HeldObjects}

\* copy.deepcopy: another object, built from copies of the parts
deepcopy(state) ==
    TestState(state.id + 1,
              [shape |-> state.grid.shape,
               cells |-> [p \in DOMAIN state.grid.cells |->
                             state.grid.cells[p]]],
              Agent(state.agent.position, state.agent.orientation,
                    state.agent.obj))

_change_grid(state) ==
    [state EXCEPT !.grid.cells[<<0, 0>>] =
        IF @ = "Floor" THEN "Wall" ELSE "Floor"]

_change_agent_position(state) ==
    [state EXCEPT !.agent.position =
        <<(@[1] + 1) % state.grid.shape[1], (@[2] + 1) % state.grid.shape[2]>>]

rotate_back(orientation) ==
    CASE orientation = "N" -> "S"
      [] orientation = "S" -> "N"
      [] orientation = "E" -> "W"
      [] orientation = "W" -> "E"

_change_agent_orientation(state) ==
    [state EXCEPT !.agent.orientation = rotate_back(@)]

_change_agent_object(state) ==
    [state EXCEPT !.agent.obj =
        IF @ = "NoneGridObject" THEN "Key(RED)" ELSE "NoneGridObject"]

\* a variant that compares the grid and where the agent is and faces
State_eq_without_object(self, other) ==
    /\ self.grid = other.grid
    /\ self.agent.position = other.agent.position
    /\ self.agent.orientation = other.agent.orientation

\* State.__eq__: the grids are equal and the agents are equal, whichever
\* objects hold them
State_eq(self, other) ==
    /\ self.grid = other.grid
    /\ self.agent = other.agent

\* State.__hash__: a number made of the parts __eq__ compares
State_hash(self) ==
    LET walls == Cardinality({p \in DOMAIN self.grid.cells :
                                 self.grid.cells[p] = "Wall"})
        facing == CASE self.agent.orientation = "N" -> 0
                    [] self.agent.orientation = "E" -> 1
                    [] self.agent.orientation = "S" -> 2
                    [] self.agent.orientation = "W" -> 3
        held == IF self.agent.obj = "NoneGridObject" THEN 0 ELSE 1
    IN  [raised |-> NoName,
         value |-> walls + 2 * self.agent.position[1]
                     + 6 * self.agent.position[2] + 18 * facing + 72 * held]

StateChanges ==
    {"_change_grid", "_change_agent_position", "_change_agent_orientation",
     "_change_agent_object"}

InitState ==
    /\ call \in [kind : {"state"}, pc : {"call"}, state : TestStates,
                 op : {""}, other : {None}, out : {None}]
    /\ fac = IdleFac
    /\ envs = <<>>
    /\ NoGym

Compared(op, other) ==
    [call EXCEPT !.pc = "return", !.op = op, !.other = other,
                 !.out = State_eq(call.state, other)]

TestEqCopy ==
    /\ call.pc = "call"
    /\ call' = Compared("deepcopy", deepcopy(call.state))
    /\ UNCHANGED <<fac, envs, outer, gym, ret, twin>>

TestEqChangedGrid ==
    /\ call.pc = "call"
    /\ call' = Compared("_change_grid", _change_grid(deepcopy(call.state)))
    /\ UNCHANGED <<fac, envs, outer, gym, ret, twin>>

TestEqChangedPosition ==
    /\ call.pc = "call"
    /\ call' = Compared("_change_agent_position",
                        _change_agent_position(deepcopy(call.state)))
    /\ UNCHANGED <<fac, envs, outer, gym, ret, twin>>

TestEqChangedOrientation ==
    /\ call.pc = "call"
    /\ call' = Compared("_change_agent_orientation",
                        _change_agent_orientation(deepcopy(call.state)))
    /\ UNCHANGED <<fac, envs, outer, gym, ret, twin>>

TestEqChangedObject ==
    /\ call.pc = "call"
    /\ call' = Compared("_change_agent_object",
                        _change_agent_object(deepcopy(call.state)))
    /\ UNCHANGED <<fac, envs, outer, gym, ret, twin>>

TestHash ==
    /\ call.pc = "call"
    /\ call' = [call EXCEPT !.pc = "return", !.op = "hash",
                            !.other = deepcopy(call.state),
                            !.out = State_hash(call.state)]
    /\ UNCHANGED <<fac, envs, outer, gym, ret, twin>>

NextState ==
    \/ TestEqCopy
    \/ TestEqChangedGrid
    \/ TestEqChangedPosition
    \/ TestEqChangedOrientation
    \/ TestEqChangedObject
    \/ TestHash

SpecState == InitState /\ [][NextState]_vars

\* C16: a deep copy of a state, another object, equals the original; a copy
\* changed in exactly one of a grid cell, the agent's position, the agent's
\* orientation or the object the agent holds does not; hash returns a
\* number for every state, the same for a state and its copy.
C16_StateEquality ==
    call.pc = "return" =>
        /\ call.other.id # call.state.id
        /\ call.op = "deepcopy" => call.out = TRUE
        /\ call.op \in StateChanges =>
              /\ call.out = FALSE
              /\ Cardinality(
                     {part \in {"grid", "position", "orientation", "obj"} :
                         CASE part = "grid" ->
                                  call.other.grid # call.state.grid
                           [] OTHER ->
                                  call.other.agent[part] #
                                      call.state.agent[part]}) = 1
        /\ call.op = "hash" =>
              /\ call.out.raised = NoName
              /\ call.out.value \in Nat
              /\ State_hash(call.other) = call.out

\* the copy of a state whose agent holds the key has given the key up, and
\* the comparison has returned False
C16_Witness ==
    /\ call.pc = "return"
    /\ call.op = "_change_agent_object"
    /\ call.state.agent.obj = "Key(RED)"
    /\ call.other.agent.obj = "NoneGridObject"
    /\ call.other.grid = call.state.grid
    /\ call.out = FALSE

(***************************************************************************)
(* Failures inside a builder, under SpecFactory.                           *)
(***************************************************************************)
\* C17: env_from_descr raises its "No environment named ..." error only for
\* a name that is no registry key; a failure raised inside a registered
\* builder, a KeyError included, reaches the caller as the error the
\* builder raised.
C17_BuilderFailurePropagates ==
    fac.pc = "returned" =>
        /\ (fac.raised = "ValueError" /\ fac.named = fac.descr) =>
              fac.descr \notin DOMAIN STRING_TO_GYM_CONSTRUCTOR
        /\ (fac.descr \in DOMAIN STRING_TO_GYM_CONSTRUCTOR
                /\ fac.outcome # "ok") =>
              /\ fac.raised = fac.outcome
              /\ fac.ran = <<fac.descr>>

(***************************************************************************)
(* SpecRegister: the registration loop at the end of gym.py, one turn per  *)
(* registry entry, and gym.make of the registered ids once the module is   *)
(* imported.  fac holds the module's globals: the loop variables key and   *)
(* constructor_, env_ids, and gym's table of registered ids.               *)
(***************************************************************************)
\* the registry's keys in the order of the dict literal
RegistryKeys ==
    <<"Empty-5x5-v0", "Empty-Random-5x5-v0", "Empty-6x6-v0",
      "Empty-Random-6x6-v0", "Empty-8x8-v0", "Empty-16x16-v0",
      "FourRooms-v0", "Dynamic-Obstacles-5x5-v0",
      "Dynamic-Obstacles-Random-5x5-v0", "Dynamic-Obstacles-6x6-v0",
      "Dynamic-Obstacles-Random-6x6-v0", "Dynamic-Obstacles-8x8-v0",
      "Dynamic-Obstacles-16x16-v0", "KeyDoor-5x5-v0", "KeyDoor-6x6-v0",
      "KeyDoor-8x8-v0", "KeyDoor-16x16-v0">>

\* f'GridVerse-{key}'
EnvId(key) == "GridVerse-" \o key

\* a variant in which the nested function reads the loop variable when it
\* is called
partial_call_late(kwargs, globals_, entropy) ==
    outer_env_constructor(globals_.constructor_, entropy)

\* partial(outer_env_constructor, constructor_)(): the builder bound when
\* the id was registered is the one called
partial_call(kwargs, globals_, entropy) ==
    outer_env_constructor(kwargs.constructor, entropy)

InitRegister ==
    /\ fac = [pc |-> "loop", i |-> 0, key |-> "", constructor_ |-> None,
              env_ids |-> <<>>, registered |-> [id \in {} |-> None]]
    /\ envs = <<>>
    /\ call = IdleCall
    /\ NoGym

\* one turn of `for key, constructor_ in ...items()`
Register ==
    LET i == fac.i + 1
        key == RegistryKeys[i]
        constructor_ == STRING_TO_GYM_CONSTRUCTOR[key]
        env_id == EnvId(key)
    IN  /\ fac.pc = "loop"
        /\ fac.i < Len(RegistryKeys)
        /\ env_id \notin DOMAIN fac.registered
        /\ fac' = [fac EXCEPT
               !.i = i, !.key = key, !.constructor_ = constructor_,
               !.registered = @ @@ (env_id :> [constructor |-> constructor_]),
               !.env_ids = Append(@, env_id),
               !.pc = IF i = Len(RegistryKeys) THEN "done" ELSE "loop"]
        /\ UNCHANGED <<envs, call, outer, gym, ret, twin>>

\* gym.make(env_id): GymEnvironment(**kwargs) of the registered entry
MakeRegistered(self, env_id, entropy) ==
    LET o == partial_call(fac.registered[env_id], fac, entropy)
        e == GymEnvironment(o, NoName, NoName)
    IN  /\ fac.pc = "done"
        /\ env_id \in DOMAIN fac.registered
        /\ outer' = e.outer_env
        /\ gym' = [gym EXCEPT ![self] = e.self]
        /\ twin' = Twin(o.inner_env, NoName, 0, FALSE, FALSE)
        /\ ret' = Ret("make", self, env_id, entropy, e.raised, 0, FALSE)
        /\ UNCHANGED <<fac, envs, call>>

NextRegister ==
    \/ Register
    \/ \E key \in DOMAIN STRING_TO_GYM_CONSTRUCTOR, entropy \in Rngs :
          MakeRegistered("a", EnvId(key), entropy)
    \/ Reset("a")
    \/ \E action \in 0..(Len(Action) - 1) : Step("a", action)

SpecRegister == InitRegister /\ [][NextRegister]_vars

\* the key an id was made from
KeyOf(env_id) ==
    CHOOSE key \in DOMAIN STRING_TO_GYM_CONSTRUCTOR : EnvId(key) = env_id

\* C18: after each turn of the loop env_ids holds 'GridVerse-k' for the keys
\* so far, in registry order, and exactly those ids are registered, one per
\* key; constructing an id builds the inner environment of the builder
\* registered under its own key, with no state representation (state_space
\* is None) and the "default" observation representation.
C18_RegistrationMirrorsRegistry ==
    /\ fac.env_ids = [i \in 1..fac.i |-> EnvId(RegistryKeys[i])]
    /\ DOMAIN fac.registered = {EnvId(RegistryKeys[i]) : i \in 1..fac.i}
    /\ Cardinality(DOMAIN fac.registered) = fac.i
    /\ fac.pc = "done" =>
          {RegistryKeys[i] : i \in 1..fac.i} =
              DOMAIN STRING_TO_GYM_CONSTRUCTOR
    /\ ret.op = "make" =>
          LET env == Construct(STRING_TO_GYM_CONSTRUCTOR[KeyOf(ret.name)],
                               ret.number)
          IN  /\ ret.raised = NoName
              /\ outer.inner_env = env
              /\ outer.state_rep = None
              /\ Self.state_space = None
              /\ outer.observation_rep =
                     create_observation_representation(
                         "default", env.domain_space.observation_space).rep
              /\ Self.observation_space =
                     outer_space_to_gym_space(outer.observation_rep.space)

\* the id of a key that is not the last of the registry has been made,
\* and the environment is that of its own builder
C18_Witness ==
    /\ fac.pc = "done"
    /\ Len(fac.env_ids) = 17
    /\ ret.op = "make"
    /\ ret.name = "GridVerse-FourRooms-v0"
    /\ outer.inner_env.reset.func = "reset_rooms"
    /\ fac.key = "KeyDoor-16x16-v0"

\* C19: for every registered builder, the grid shape of the state space,
\* taken from one sample of the reset function when the environment is
\* built, is the grid shape of the state after any sequence of reset and
\* step calls.
C19_GridShapeInvariant ==
    (outer # None /\ Ready(outer.inner_env)) =>
        outer.inner_env.state.shape =
            outer.inner_env.domain_space.state_space.grid_shape

\* an environment of the largest empty room has been reset and stepped
C19_Witness ==
    /\ outer # None
    /\ ret.op = "step"
    /\ ret.raised = NoName
    /\ outer.inner_env.reset.func = "reset_empty"
    /\ outer.inner_env.state.shape = <<18, 18>>
    /\ outer.inner_env.state.agent # 0

(***************************************************************************)
(* SpecDrivers: manually_control (scripts/manual_control.py) and main      *)
(* (scripts/gv_control_loop_outer.py).  call is the running driver: its    *)
(* place (the line it is about to run), its locals, the operation it       *)
(* issued last, whether it has issued a reset, and whether the latest step *)
(* reported done with no reset since; envs holds the environment it        *)
(* drives.                                                                 *)
(***************************************************************************)
DriverKeys ==
    {"Empty-Random-5x5-v0", "Dynamic-Obstacles-5x5-v0",
     "Dynamic-Obstacles-Random-5x5-v0", "KeyDoor-5x5-v0"}

Driver(kind, pc, done, op, was_reset, last_done) ==
    [kind |-> kind, pc |-> pc, done |-> done, op |-> op,
     was_reset |-> was_reset, last_done |-> last_done]

\* a variant that carries on without the reset
reset_if_never(t, env) == [env |-> env, reset |-> FALSE]

\* if t: domain.reset()
reset_if(t, env) ==
    [env |-> IF t THEN InnerEnv_reset(env) ELSE env, reset |-> t]

InitDrivers ==
    /\ call = Driver("", "start", FALSE, "", FALSE, FALSE)
    /\ envs = <<>>
    /\ fac = IdleFac
    /\ NoGym

\* manually_control(env_from_descr(descr)), up to its first line
ManualStart(key, entropy) ==
    /\ call.pc = "start"
    /\ envs' = <<env_from_descr(key, "ok", entropy).value>>
    /\ call' = Driver("manually_control", "29", FALSE, "", FALSE, FALSE)
    /\ UNCHANGED <<fac, outer, gym, ret, twin>>

\* line 29: domain.reset()
ManualReset ==
    /\ call.kind = "manually_control" /\ call.pc = "29"
    /\ envs' = <<InnerEnv_reset(envs[1])>>
    /\ call' = Driver(call.kind, "32", FALSE, "reset", TRUE, FALSE)
    /\ UNCHANGED <<fac, outer, gym, ret, twin>>

\* lines 32-34: a = get_user_action(); r, t = domain.step(a)
ManualStep(a) ==
    LET e == InnerEnv_step(envs[1], a)
    IN  /\ call.kind = "manually_control" /\ call.pc = "32"
        /\ envs' = <<e.env>>
        /\ call' = Driver(call.kind, "36", e.done, "step", call.was_reset,
                          e.done)
        /\ UNCHANGED <<fac, outer, gym, ret, twin>>

\* lines 36-38: if t: domain.reset()
ManualResetIfDone ==
    LET e == reset_if(call.done, envs[1])
    IN  /\ call.kind = "manually_control" /\ call.pc = "36"
        /\ envs' = <<e.env>>
        /\ call' = Driver(call.kind, "40", call.done,
                          IF e.reset THEN "reset" ELSE call.op,
                          call.was_reset \/ e.reset,
                          call.last_done /\ ~e.reset)
        /\ UNCHANGED <<fac, outer, gym, ret, twin>>

\* lines 40-47: state = domain.state; obs = domain.observation; print
ManualRead ==
    /\ call.kind = "manually_control" /\ call.pc = "40"
    /\ call' = [call EXCEPT !.pc = "32", !.op = "read"]
    /\ UNCHANGED <<envs, fac, outer, gym, ret, twin>>

\* line 27: env = make_env(args.path)
MainStart(key, entropy) ==
    /\ call.pc = "start"
    /\ envs' = <<Construct(STRING_TO_GYM_CONSTRUCTOR[key], entropy)>>
    /\ call' = Driver("main", "28", FALSE, "", FALSE, FALSE)
    /\ UNCHANGED <<fac, outer, gym, ret, twin>>

\* line 28: env.reset()
MainReset ==
    /\ call.kind = "main" /\ call.pc = "28"
    /\ envs' = <<InnerEnv_reset(envs[1])>>
    /\ call' = Driver(call.kind, "36", FALSE, "reset", TRUE, FALSE)
    /\ UNCHANGED <<fac, outer, gym, ret, twin>>

\* lines 36-37: env.reset(); print_observation(env.observation)
MainEpisode ==
    /\ call.kind = "main" /\ call.pc = "36"
    /\ envs' = <<InnerEnv_reset(envs[1])>>
    /\ call' = Driver(call.kind, "44", FALSE, "read", TRUE, FALSE)
    /\ UNCHANGED <<fac, outer, gym, ret, twin>>

\* lines 44-45: action = random.choice(...); reward, done = env.step(action)
MainStep(action) ==
    LET e == InnerEnv_step(envs[1], action)
    IN  /\ call.kind = "main" /\ call.pc = "44"
        /\ envs' = <<e.env>>
        /\ call' = Driver(call.kind, "49", e.done, "step", call.was_reset,
                          e.done)
        /\ UNCHANGED <<fac, outer, gym, ret, twin>>

\* lines 47-56: the prints, env.observation among them; if done: break
MainReadAndBreak ==
    /\ call.kind = "main" /\ call.pc = "49"
    /\ call' = [call EXCEPT !.pc = IF call.done THEN "36" ELSE "44",
                            !.op = "read"]
    /\ UNCHANGED <<envs, fac, outer, gym, ret, twin>>

NextDrivers ==
    \/ \E key \in DriverKeys, entropy \in Rngs : ManualStart(key, entropy)
    \/ ManualReset
    \/ \E a \in Actions : ManualStep(a)
    \/ ManualResetIfDone
    \/ ManualRead
    \/ \E key \in DriverKeys, entropy \in Rngs : MainStart(key, entropy)
    \/ MainReset
    \/ MainEpisode
    \/ \E action \in Actions : MainStep(action)
    \/ MainReadAndBreak

SpecDrivers == InitDrivers /\ [][NextDrivers]_vars

\* the driver is about to issue a step
AboutToStep ==
    \/ call.kind = "manually_control" /\ call.pc = "32"
    \/ call.kind = "main" /\ call.pc = "44"

\* C20: in both drivers every step comes after at least one reset, and no
\* step is issued while the most recent step reported done: between a step
\* that returned done and the next step the driver issues a reset (it may
\* read the state and the observation on the way), so every step finds the
\* environment Ready and no step raises.
C20_DriversResetAfterDone ==
    /\ AboutToStep =>
          /\ call.was_reset
          /\ ~call.last_done
          /\ Ready(envs[1])
    /\ call.op = "step" => call.last_done = call.done
    /\ call.last_done => call.op \in {"step", "read"}

\* manually_control has reset the environment after a step that returned
\* done and is about to step again
C20_Witness ==
    /\ call.kind = "manually_control"
    /\ call.pc = "32"
    /\ call.done
    /\ ~call.last_done
    /\ call.op = "read"
    /\ Ready(envs[1])

(***************************************************************************)
(* SpecRules: a caller composes an environment of its own with create_env, *)
(* one of its transition rules being a rule that may raise, and resets and *)
(* steps it.  envs holds the environment, call the latest call: the        *)
(* environment as it was when the call was made, and what the call gave    *)
(* back.                                                                   *)
(***************************************************************************)
RaisingRuleLists ==
    {<<"update_agent", "assert_off_goal">>,
     <<"assert_off_goal", "update_agent">>,
     <<"step_moving_obstacles", "update_agent", "assert_off_goal">>}

RuledResets ==
    {[func |-> "reset_empty", height |-> 7, width |-> 7, random_pos |-> TRUE],
     [func |-> "reset_dynamic_obstacles", height |-> 7, width |-> 7,
      num_obstacles |-> 1, random_pos |-> TRUE]}

RuledCall(pc, before, action, e) ==
    [kind |-> "rules", pc |-> pc, before |-> before, action |-> action,
     raised |-> e.raised, reward |-> e.reward, done |-> e.done]

InitRules ==
    /\ envs = <<>>
    /\ call = IdleCall
    /\ fac = IdleFac
    /\ NoGym

\* create_env(domain_space, reset, transition_functions, rewards,
\* terminations) as a builder calls it
CreateEnv(reset_func, transition_functions, entropy) ==
    LET objects == <<"Wall", "Floor", "Goal", "MovingObstacle">>
        colors == <<"NONE">>
        grid_shape == ResetFunction(reset_func, entropy).state.shape
        domain_space == DomainSpace(StateSpace(grid_shape, objects, colors),
                                    ActionSpace(Action),
                                    ObservationSpace(<<7, 7>>, objects,
                                                     colors))
        env == create_env(domain_space, reset_func, transition_functions,
                          <<"reach_goal">>, <<"reach_goal">>, entropy)
    IN  /\ envs = <<>>
        /\ envs' = <<env>>
        /\ call' = RuledCall("create_env", env, 0, NoOutcome)
        /\ UNCHANGED <<fac, outer, gym, ret, twin>>

ResetRuled ==
    /\ envs # <<>>
    /\ envs' = <<GymEnvironment_reset(envs[1])>>
    /\ call' = RuledCall("reset", envs[1], 0, NoOutcome)
    /\ UNCHANGED <<fac, outer, gym, ret, twin>>

StepRuled(action) ==
    LET e == GymEnvironment_step(envs[1], action)
    IN  /\ envs # <<>>
        /\ envs' = <<e.env>>
        /\ call' = RuledCall("step", envs[1], action, e)
        /\ UNCHANGED <<fac, outer, gym, ret, twin>>

NextRules ==
    \/ \E reset_func \in RuledResets, fs \in RaisingRuleLists,
          entropy \in Rngs : CreateEnv(reset_func, fs, entropy)
    \/ ResetRuled
    \/ \E action \in 0..(Len(Action) - 1) : StepRuled(action)

SpecRules == InitRules /\ [][NextRules]_vars

\* what the chain of the environment's rules gives for the latest step, run
\* apart from the environment on the state the step found
ChainOfCall ==
    chain(call.before.state, Action[call.action + 1], call.before.rng,
          call.before.transition_functions)

\* C21: when a transition rule of the chain raises during a step, the step
\* raises what the rule raised, and the canonical state and the last
\* observation of the environment are those from before the step: what the
\* rules before the failing one did is discarded.  When no rule raises the
\* step does not raise and the canonical state is the end of the chain.
C21_RuleFailureAtomic ==
    call.kind = "rules" /\ call.pc = "step" /\ Ready(call.before) =>
        IF Failed(ChainOfCall)
        THEN /\ call.raised = ChainOfCall.raised
             /\ envs[1].state = call.before.state
             /\ envs[1].observation = call.before.observation
        ELSE /\ call.raised = NoName
             /\ envs[1].state = ChainOfCall.state

\* a step has raised the failure of the last rule of its chain, after the
\* rules before it had changed the state they were working on; the
\* environment has the state and the observation it had
C21_Witness ==
    /\ call.kind = "rules" /\ call.pc = "step" /\ Ready(call.before)
    /\ call.raised = "AssertionError"
    /\ Failed(ChainOfCall)
    /\ ChainOfCall.state # call.before.state
    /\ envs[1].state = call.before.state
    /\ envs[1].observation = call.before.observation

====
